---- MODULE Spec2Model ----
(***************************************************************************)
(* Marine-Insights front end: the HTTP helper (utils/api), the mock data   *)
(* generators (utils/mock.ts) and the fetch orchestrators of the three     *)
(* views (pages/Fisheries.tsx, pages/OceanData.tsx, pages/Biodiversity.tsx)*)
(* as a state machine.                                                     *)
(*                                                                         *)
(* Numbers are fixed point: forecast values in 1/100, depth-profile values *)
(* in 1/9000, confidences in 1/1000.  Math.random() is a stream            *)
(* (cur + i*step) mod RngMod of numerators over RngMod, for every seed     *)
(* (cur, step) the specification's Init allows.                            *)
(***************************************************************************)
EXTENDS Integers, Sequences, FiniteSets, TLC

VARIABLES
    mounted,        \* the routed view currently mounted (App.tsx Routes)
    inst,           \* identity of the mounted component instance
    fisheries,      \* useState cells of the mounted Fisheries instance
    oceanData,      \* useState cells of the mounted OceanData instance
    biodiversity,   \* useState cells of the mounted Biodiversity instance
    tasks,          \* async functions suspended at an await, with their closure
    callCount,      \* __mockClassificationCallCount (module scope of mock.ts)
    rng,            \* state of Math.random()
    objectUrls,     \* object URLs created and not yet revoked (browser registry)
    urlCount,       \* number of object URLs created so far
    fileCount,      \* number of File objects handed to the views so far
    cleanupUrl,     \* the URL the preview effect's pending cleanup closes over (0: none)
    mockLog,        \* history: species returned by mockFishClassification, in call order
    last,           \* history: the step just taken, with its input and what it did
    call,           \* a function called directly: the call made
    result,         \* a function called directly: what it returned or threw
    apiBase         \* import.meta.env.VITE_API_BASE of the build, <<>> when unset

vars == <<mounted, inst, fisheries, oceanData, biodiversity, tasks, callCount, rng,
          objectUrls, urlCount, fileCount, cleanupUrl, mockLog, last, call, result,
          apiBase>>

viewVars == <<mounted, inst, fisheries, oceanData, biodiversity, tasks, callCount,
              objectUrls, urlCount, fileCount, cleanupUrl, mockLog, last, apiBase>>

(***************************************************************************)
(* Bounds of the model.                                                    *)
(***************************************************************************)
MaxMounts == 3      \* component instances mounted in one run
MaxFiles == 2       \* File objects selected in one run
MaxCalls == 4       \* mockFishClassification calls in one run
MaxDetached == 1    \* async functions still suspended when the user navigates away
RngMod == 11        \* Math.random() yields k/RngMod, k in 0..RngMod-1

Max(a, b) == IF a >= b THEN a ELSE b
Min(a, b) == IF a <= b THEN a ELSE b

(***************************************************************************)
(* Math.random(): the i-th draw (i >= 0) from generator state g, as the    *)
(* numerator k of k/RngMod in [0, 1).                                      *)
(***************************************************************************)
Draw(g, i) == (g.cur + i * g.step) % RngMod
Advance(g, n) == [cur |-> (g.cur + n * g.step) % RngMod, step |-> g.step]
RngStates == [cur : 0..(RngMod - 1), step : 0..(RngMod - 1)]

\* (Math.random() - 0.5) * amp, for the draw k, in the unit amp is given in
Noise(k, amp) == ((2 * k - RngMod) * amp) \div (2 * RngMod)

(***************************************************************************)
(* JavaScript values: a record tagged with its type.                       *)
(***************************************************************************)
JUndefined == [t |-> "undefined"]
JNull == [t |-> "null"]
JStr(s) == [t |-> "string", s |-> s]
JNum(n) == [t |-> "number", n |-> n]
JBool(b) == [t |-> "boolean", b |-> b]
JObj(o) == [t |-> "object", o |-> o]
JArr(a) == [t |-> "array", a |-> a]

\* the object a mock plot generator returns when Math.random() is in state g; the
\* state machine holds it by the generator's name and g, PlotOf gives its fields
MockPlot(name, g) == [t |-> "object", mock |-> name, g |-> g]

\* v.f where v is neither null nor undefined (there the access throws)
Get(v, f) ==
    IF v.t = "object" /\ "o" \in DOMAIN v /\ f \in DOMAIN v.o THEN v.o[f] ELSE JUndefined
Nullish(v) == v.t \in {"null", "undefined"}
Truthy(v) ==
    CASE v.t \in {"null", "undefined"} -> FALSE
      [] v.t = "boolean" -> v.b
      [] v.t = "number" -> v.n # 0
      [] v.t = "string" -> IF "s" \in DOMAIN v THEN v.s # "" ELSE TRUE
      [] OTHER -> TRUE

(***************************************************************************)
(* utils/mock.ts                                                           *)
(***************************************************************************)
\* Number.prototype.toString for a non-negative integer, as its decimal digits
RECURSIVE Digits(_)
Digits(n) == IF n < 10 THEN <<n>> ELSE Append(Digits(n \div 10), n % 10)

\* String(v) of a number v: the label text
YearLabel(y) == [text |-> Digits(y)]

\* the loop with `y < hi` for its condition: one year short
YearsLoopExclusive(lo, hi) == [i \in 1..Max(0, hi - lo) |-> lo + i - 1]

\* for (let y = lo; y <= hi; y += 1) push(y)
YearsLoop(lo, hi) == [i \in 1..Max(0, hi - lo + 1) |-> lo + i - 1]

\* 55 + 0.6*t + 0.22*t*t with t = y - baseYear, in 1/100
ForecastValue(y) == 5500 + 60 * (y - 2000) + 22 * (y - 2000) * (y - 2000)

mockForecastInteractive(g) ==
    LET yearsFull == YearsLoop(2000, 2030)
        forecast == [i \in DOMAIN yearsFull |-> ForecastValue(yearsFull[i])]
        actualYears == YearsLoop(2000, 2020)
        actualValues == [i \in DOMAIN actualYears |->
                            Max(5000, ForecastValue(actualYears[i])
                                        + Noise(Draw(g, i - 1), 200))]
    IN  [data |-> << [x |-> [i \in DOMAIN actualYears |-> YearLabel(actualYears[i])],
                      y |-> actualValues, name |-> "Actual Stock"],
                     [x |-> [i \in DOMAIN yearsFull |-> YearLabel(yearsFull[i])],
                      y |-> forecast, name |-> "Polynomial Forecast"] >>,
         layout |-> "Fish Stock Forecast (Crystal Ball)"]

\* Math.random() calls of one mockForecastInteractive()
ForecastDraws == Len(YearsLoop(2000, 2020))

\* for (let d = 900; d >= 0; d -= 10) depths.push(d)
DepthsLoop == [i \in 1..91 |-> 900 - 10 * (i - 1)]

\* Math.exp(-Math.pow(a, 2) / (2 * Math.pow(18, 2))) * 0.8 in 1/9000, rounded,
\* for a = |d - peakDepth|
GaussPeak(a) ==
    LET k == a \div 10
    IN  CASE k = 0 -> 7200
          [] k = 1 -> 6170
          [] k = 2 -> 3884
          [] k = 3 -> 1795
          [] k = 4 -> 610
          [] k = 5 -> 152
          [] k = 6 -> 28
          [] k = 7 -> 4
          [] OTHER -> 0

Abs(a) == IF a < 0 THEN 0 - a ELSE a

\* chlorophyll with its peak at the surface instead of at 80 m
ChlorophyllSurfacePeak(d, k) ==
    Max(0, 180 + (IF d > 300 THEN 90 ELSE 0) + GaussPeak(Abs(d - 0)) + Noise(k, 90))

\* chlorophyll at depth d with the draw k, in 1/9000
Chlorophyll(d, k) ==
    LET peakDepth == 80
        peak == GaussPeak(Abs(d - peakDepth))
        baseline == 180 + (IF d > 300 THEN 90 ELSE 0)
    IN  Max(0, baseline + peak + Noise(k, 90))

\* pH at depth d with the draw k, in 1/9000
PH(d, k) ==
    LET val == 54000 + 21 * d
    IN  Max(49500, Min(81000, val + Noise(k, 270)))

\* salinity at depth d with the draw k, in 1/9000
Salinity(d, k) ==
    LET v0 == 313200 + 2 * d + Noise(k, 720)
        v1 == IF d > 820 /\ d < 860 THEN v0 - 7200 ELSE v0
        v2 == IF d > 740 /\ d < 780 THEN v1 - 4500 ELSE v1
        v3 == IF d > 380 /\ d < 420 THEN v2 - 8100 ELSE v2
    IN  Max(297000, Min(319500, v3))

\* the generator whose chlorophyll series lost its last value
mockDepthShort(g) ==
    LET depths == DepthsLoop
        n == Len(depths)
    IN  [data |-> << [x |-> depths,
                      y |-> [i \in 1..(n - 1) |-> Chlorophyll(depths[i], Draw(g, i - 1))],
                      name |-> "Chlorophyll"],
                     [x |-> depths,
                      y |-> [i \in 1..n |-> PH(depths[i], Draw(g, n + i - 1))],
                      name |-> "pH Level"],
                     [x |-> depths,
                      y |-> [i \in 1..n |-> Salinity(depths[i], Draw(g, 2 * n + i - 1))],
                      name |-> "Salinity"] >>,
         layout |-> "Ocean Depth Profiles"]

mockDepth(g) ==
    LET depths == DepthsLoop
        n == Len(depths)
    IN  [data |-> << [x |-> depths,
                      y |-> [i \in 1..n |-> Chlorophyll(depths[i], Draw(g, i - 1))],
                      name |-> "Chlorophyll"],
                     [x |-> depths,
                      y |-> [i \in 1..n |-> PH(depths[i], Draw(g, n + i - 1))],
                      name |-> "pH Level"],
                     [x |-> depths,
                      y |-> [i \in 1..n |-> Salinity(depths[i], Draw(g, 2 * n + i - 1))],
                      name |-> "Salinity"] >>,
         layout |-> "Ocean Depth Profiles"]

\* Math.random() calls of one mockDepth()
DepthDraws == 3 * Len(DepthsLoop)

\* Number.prototype.toFixed(2) of a non-negative number given in 1/1000:
\* the nearest 1/100, ties upwards
ToFixed2(milli) == [t |-> "string", fixed2 |-> (milli + 5) \div 10, suffix |-> ""]

\* s without the suffix
Unsuffixed(s) == s

\* s + '%'
Percent(s) == [s EXCEPT !.suffix = "%"]

order == <<"Neon Tetra", "Zebra Danio", "Clownfish">>

\* the value returned for the counter value count and the draw k
mockFishClassification(count, k) ==
    LET species == order[(count % Len(order)) + 1]
        confidenceValue == (k * (87000 - 75000)) \div RngMod + 75000
    IN  [species |-> JStr(species), confidence |-> Percent(ToFixed2(confidenceValue))]

\* the counter advanced by two
NextCallCountSkip(count) == count + 2

\* __mockClassificationCallCount += 1
NextCallCount(count) == count + 1

\* amplitude * Math.sin((2 * Math.PI * m) / 12 - Math.PI / 2) for the month
\* m = getUTCMonth() in 0..11, in 1/1000, rounded
Seasonal(m) ==
    CASE m = 0 -> 0 - 6000
      [] m = 1 -> 0 - 5196
      [] m = 2 -> 0 - 3000
      [] m = 3 -> 0
      [] m = 4 -> 3000
      [] m = 5 -> 5196
      [] m = 6 -> 6000
      [] m = 7 -> 5196
      [] m = 8 -> 3000
      [] m = 9 -> 0
      [] m = 10 -> 0 - 3000
      [] OTHER -> 0 - 5196

\* the label with getUTCMonth() taken for the month's number: 00 to 11
MonthLabelZeroBased(a) ==
    [year |-> Digits(a \div 12),
     month |-> IF a % 12 < 10 THEN <<0, a % 12>> ELSE Digits(a % 12)]

\* `${getUTCFullYear()}-${String(getUTCMonth() + 1).padStart(2, '0')}` of the
\* month number a = 12 * year + month
MonthLabel(a) ==
    [year |-> Digits(a \div 12),
     month |-> IF (a % 12) + 1 < 10 THEN <<0, (a % 12) + 1>> ELSE Digits((a % 12) + 1)]

\* Number((baseline + seasonal + trend + noise).toFixed(2)), in 1/100
SstValue(a, monthIndex, k, amp) ==
    (20000 + Seasonal(a % 12) + 20 * monthIndex + Noise(k, amp) + 5) \div 10

mockSST(g) ==
    LET histStart == 12 * 2020 + 0
        histEnd == 12 * 2024 + 11
        nHist == Max(0, histEnd - histStart + 1)
        histX == [i \in 1..nHist |-> MonthLabel(histStart + i - 1)]
        histY == [i \in 1..nHist |->
                    SstValue(histStart + i - 1, i - 1, Draw(g, i - 1), 600)]
        fcX == [i \in 1..18 |-> MonthLabel(histEnd + i)]
        fcY == [i \in 1..18 |->
                    SstValue(histEnd + i, nHist + i - 1, Draw(g, nHist + i - 1), 300)]
    IN  [data |-> << [x |-> histX, y |-> histY, name |-> "Historical SST"],
                     [x |-> fcX, y |-> fcY, name |-> "SST Forecast"] >>,
         layout |-> "Sea Surface Temperature - Historical & Forecast"]

\* Math.random() calls of one mockSST()
SstDraws == (12 * 2024 + 11) - (12 * 2020) + 1 + 18

\* the {data, layout} of a plot object held by a view
PlotOf(v) ==
    IF "mock" \in DOMAIN v
    THEN CASE v.mock = "mockForecastInteractive" -> mockForecastInteractive(v.g)
           [] v.mock = "mockSST" -> mockSST(v.g)
           [] OTHER -> mockDepth(v.g)
    ELSE v.o

(***************************************************************************)
(* pages/Biodiversity.tsx: the view's own mock table                       *)
(***************************************************************************)
Hit(species, confidence, invasive) ==
    JObj([species |-> JStr(species), confidence |-> JNum(confidence),
          invasive |-> JBool(invasive)])

getMockeDNAResults ==
    << Hit("Atlantic Cod (Gadus morhua)", 94000, FALSE),
       Hit("Harbor Seal (Phoca vitulina)", 89000, FALSE),
       Hit("Blue Mussel (Mytilus edulis)", 76000, FALSE),
       Hit("Nile Tilapia (Oreochromis niloticus)", 82000, TRUE),
       Hit("European Green Crab (Carcinus maenas)", 71000, FALSE) >>

\* Array.prototype.find(s => s.invasive): the first such element, else undefined
RECURSIVE FindInvasive(_)
FindInvasive(hits) ==
    IF hits = <<>> THEN JUndefined
    ELSE IF Truthy(Get(Head(hits), "invasive")) THEN Head(hits)
    ELSE FindInvasive(Tail(hits))

(***************************************************************************)
(* utils/api: fetch and the JSON helpers.  A settled fetch is a record     *)
(* [net, status, parseable, json]: net = "fail" is a transport failure     *)
(* (fetch rejects), otherwise a response with its status and its body.     *)
(***************************************************************************)
\* the status test with the half-open range 200 <= status < 299
okHalfOpen(res) == res.status >= 200 /\ res.status < 299

\* Response.ok
ok(res) == res.status >= 200 /\ res.status <= 299

\* what `await fetch(...)`, `if (!res.ok) throw`, `return res.json()` come to;
\* an error's status is 0 when the error carries none
RequestJson(method, path, res) ==
    IF res.net = "fail"
    THEN [threw |-> TRUE, error |-> [name |-> "TypeError", status |-> 0]]
    ELSE IF ~ok(res)
    THEN [threw |-> TRUE, error |-> [name |-> "Error", status |-> res.status]]
    ELSE IF ~res.parseable
    THEN [threw |-> TRUE, error |-> [name |-> "SyntaxError", status |-> 0]]
    ELSE [threw |-> FALSE, value |-> res.json]

getJson(path, res) == RequestJson("GET", path, res)
postJson(path, res) == RequestJson("POST", path, res)
postFormData(path, res) == RequestJson("POST", path, res)

(***************************************************************************)
(* utils/api: buildUrl.  Text is a sequence of one-character strings.      *)
(***************************************************************************)
\* a JavaScript string given by its characters
Txt(chars) == [t |-> "string", chars |-> chars]

DigitChar(d) ==
    CASE d = 0 -> "0" [] d = 1 -> "1" [] d = 2 -> "2" [] d = 3 -> "3" [] d = 4 -> "4"
      [] d = 5 -> "5" [] d = 6 -> "6" [] d = 7 -> "7" [] d = 8 -> "8" [] OTHER -> "9"

\* String(value) for a string, a non-negative integer or a boolean
StringOf(v) ==
    CASE v.t = "string" -> v.chars
      [] v.t = "number" -> [i \in DOMAIN Digits(v.n) |-> DigitChar(Digits(v.n)[i])]
      [] v.t = "boolean" -> IF v.b THEN <<"t", "r", "u", "e">>
                            ELSE <<"f", "a", "l", "s", "e">>
      [] OTHER -> <<"?">>

\* the application/x-www-form-urlencoded serializer of URLSearchParams
EncodeChar(c) ==
    CASE c = " " -> <<"+">>
      [] c = "&" -> <<"%", "2", "6">>
      [] c = "=" -> <<"%", "3", "D">>
      [] c = "+" -> <<"%", "2", "B">>
      [] c = "%" -> <<"%", "2", "5">>
      [] OTHER -> <<c>>

RECURSIVE Encode(_)
Encode(chars) ==
    IF chars = <<>> THEN <<>> ELSE EncodeChar(Head(chars)) \o Encode(Tail(chars))

RECURSIVE SerializeQuery(_)
SerializeQuery(entries) ==
    IF entries = <<>> THEN <<>>
    ELSE LET rest == SerializeQuery(Tail(entries))
         IN  Encode(Head(entries).key) \o <<"=">> \o Encode(Head(entries).value)
               \o (IF rest = <<>> THEN <<>> ELSE <<"&">> \o rest)

\* the application/x-www-form-urlencoded parser of the URL constructor
DecodeHex(a, b) ==
    CASE <<a, b>> = <<"2", "6">> -> "&"
      [] <<a, b>> = <<"3", "D">> -> "="
      [] <<a, b>> = <<"2", "B">> -> "+"
      [] <<a, b>> = <<"2", "5">> -> "%"
      [] OTHER -> "?"

RECURSIVE Decode(_)
Decode(chars) ==
    IF chars = <<>> THEN <<>>
    ELSE IF Head(chars) = "+" THEN <<" ">> \o Decode(Tail(chars))
    ELSE IF Head(chars) = "%" /\ Len(chars) >= 3
    THEN <<DecodeHex(chars[2], chars[3])>> \o Decode(SubSeq(chars, 4, Len(chars)))
    ELSE <<Head(chars)>> \o Decode(Tail(chars))

\* chars up to the first c, and the chars after it
Before(chars, c) ==
    LET hits == {i \in DOMAIN chars : chars[i] = c}
    IN  IF hits = {} THEN chars
        ELSE SubSeq(chars, 1, (CHOOSE i \in hits : \A j \in hits : i <= j) - 1)
After(chars, c) ==
    LET hits == {i \in DOMAIN chars : chars[i] = c}
    IN  IF hits = {} THEN <<>>
        ELSE SubSeq(chars, (CHOOSE i \in hits : \A j \in hits : i <= j) + 1, Len(chars))

RECURSIVE ParseQuery(_)
ParseQuery(chars) ==
    IF chars = <<>> THEN <<>>
    ELSE LET piece == Before(chars, "&")
             rest == ParseQuery(After(chars, "&"))
         IN  IF piece = <<>> THEN rest
             ELSE <<[key |-> Decode(Before(piece, "=")),
                     value |-> Decode(After(piece, "="))]>> \o rest

\* URLSearchParams.prototype.set: the first entry named key gets the value and the
\* other entries named key are removed; without such an entry one is appended
RECURSIVE Without(_, _)
Without(entries, key) ==
    IF entries = <<>> THEN <<>>
    ELSE IF Head(entries).key = key THEN Without(Tail(entries), key)
    ELSE <<Head(entries)>> \o Without(Tail(entries), key)

RECURSIVE SearchParamsSet(_, _, _)
SearchParamsSet(entries, key, value) ==
    IF entries = <<>> THEN <<[key |-> key, value |-> value]>>
    ELSE IF Head(entries).key = key
    THEN <<[key |-> key, value |-> value]>> \o Without(Tail(entries), key)
    ELSE <<Head(entries)>> \o SearchParamsSet(Tail(entries), key, value)

\* export const API_BASE_URL = import.meta.env?.VITE_API_BASE || 'http://127.0.0.1:8000'
DefaultBase == <<"h", "t", "t", "p", ":", "/", "/", "1", "2", "7", ".", "0", ".", "0", ".",
                 "1", ":", "8", "0", "0", "0">>
API_BASE_URL(env) == IF env = <<>> THEN DefaultBase ELSE env

\* path.startsWith('http')
StartsWithHttp(chars) == Len(chars) >= 4 /\ SubSeq(chars, 1, 4) = <<"h", "t", "t", "p">>

\* new URL(text) for the texts of the model: an absolute http(s) URL parses into
\* its part before the query and its query; any other text makes it throw
IsAbsolute(chars) ==
    \/ Len(chars) >= 7 /\ SubSeq(chars, 1, 7) = <<"h", "t", "t", "p", ":", "/", "/">>
    \/ Len(chars) >= 8 /\ SubSeq(chars, 1, 8) = <<"h", "t", "t", "p", "s", ":", "/", "/">>

\* the loop without its `value !== undefined && value !== null` test
RECURSIVE ApplyParamsAll(_, _, _)
ApplyParamsAll(entries, params, i) ==
    IF i > Len(params) THEN entries
    ELSE ApplyParamsAll(SearchParamsSet(entries, params[i].key, StringOf(params[i].value)),
                        params, i + 1)

\* Object.entries(params).forEach(...) over the entries from the i-th on
RECURSIVE ApplyParams(_, _, _)
ApplyParams(entries, params, i) ==
    IF i > Len(params) THEN entries
    ELSE IF params[i].value.t \notin {"undefined", "null"}
    THEN ApplyParams(SearchParamsSet(entries, params[i].key, StringOf(params[i].value)),
                     params, i + 1)
    ELSE ApplyParams(entries, params, i + 1)

\* params is the sequence Object.entries gives (keys unique), <<>> for no params
buildUrl(env, path, params) ==
    LET text == IF StartsWithHttp(path) THEN path ELSE API_BASE_URL(env) \o path
        parsed == ParseQuery(After(text, "?"))
        entries == ApplyParams(parsed, params, 1)
        touched == \E i \in DOMAIN params : params[i].value.t \notin {"undefined", "null"}
        search == IF touched THEN SerializeQuery(entries) ELSE After(text, "?")
    IN  IF ~IsAbsolute(text)
        THEN [threw |-> TRUE, error |-> [name |-> "TypeError", status |-> 0]]
        ELSE [threw |-> FALSE,
              value |-> Before(text, "?") \o (IF search = <<>> THEN <<>> ELSE <<"?">> \o search)]

(***************************************************************************)
(* utils/api: the arguments the helpers hand to fetch.  An object is a      *)
(* function from its keys; a text may hold a longer piece without special   *)
(* characters as one element.                                               *)
(***************************************************************************)
\* { ...a, ...b }
Spread(a, b) == [k \in DOMAIN a \cup DOMAIN b |-> IF k \in DOMAIN b THEN b[k] ELSE a[k]]

\* init?.headers || {}, for init an object or <<>> when it is not given
InitHeaders(init) == IF "headers" \in DOMAIN init THEN init.headers ELSE <<>>

\* an object literal given by its entries [key, value] in order
ObjectOf(entries) == [t |-> "object", entries |-> entries]

\* a FormData with the field 'file'
FormDataOf(file) == [t |-> "formData", file |-> file]

\* JSON.stringify of a string, number, boolean, null or object of such values
RECURSIVE JsonText(_)
JsonText(v) ==
    CASE v.t = "string" -> <<"\"">> \o v.chars \o <<"\"">>
      [] v.t = "null" -> <<"null">>
      [] v.t = "object" ->
           IF v.entries = <<>> THEN <<"{", "}">>
           ELSE LET first == v.entries[1]
                    rest == JsonText(ObjectOf(Tail(v.entries)))
                IN  <<"{", "\"">> \o first.key \o <<"\"", ":">> \o JsonText(first.value)
                      \o (IF Len(v.entries) = 1 THEN <<>> ELSE <<",">>) \o Tail(rest)
      [] OTHER -> StringOf(v)

getJsonRequest(env, path, params, init) ==
    [url |-> buildUrl(env, path, params),
     options |-> Spread([method |-> "GET",
                         headers |-> Spread([k \in {"Accept"} |-> "application/json"],
                                            InitHeaders(init))],
                        init)]

postJsonRequest(env, path, params, body, init) ==
    [url |-> buildUrl(env, path, params),
     options |-> Spread([method |-> "POST",
                         headers |-> Spread([k \in {"Accept", "Content-Type"} |->
                                               "application/json"],
                                            InitHeaders(init)),
                         body |-> IF body # JUndefined THEN Txt(JsonText(body))
                                  ELSE JUndefined],
                        init)]

postFormDataRequest(env, path, params, formData, init) ==
    [url |-> buildUrl(env, path, params),
     options |-> Spread([method |-> "POST",
                         body |-> formData,
                         headers |-> Spread([k \in {"Accept"} |-> "application/json"],
                                            InitHeaders(init))],
                        init)]

imageUrl(env, path, params) == buildUrl(env, path, params)

(***************************************************************************)
(* What the backend may answer.                                            *)
(***************************************************************************)
NetworkFailure == [net |-> "fail", status |-> 0, parseable |-> FALSE, json |-> JUndefined]
Response(status, json) == [net |-> "ok", status |-> status, parseable |-> TRUE, json |-> json]
Garbled(status) == [net |-> "ok", status |-> status, parseable |-> FALSE, json |-> JUndefined]

\* the class of failure of a settled fetch
FailureClass(res) ==
    IF res.net = "fail" THEN "transport"
    ELSE IF ~ok(res) THEN "status"
    ELSE IF ~res.parseable THEN "parse"
    ELSE "none"

\* the body the helpers hand back: the parsed JSON of a 2xx response
Parsed(res) == IF FailureClass(res) = "none" THEN res.json ELSE JUndefined

ViewStatuses == {200, 500}

ServerPlot == JObj([data |-> JArr(<<JStr("trace")>>), layout |-> JStr("server layout")])
PlotBodies == {JNull, ServerPlot, JObj([plot_data |-> ServerPlot])}

ClassifyBodies ==
    {JNull,
     JObj([species |-> JStr("Tuna"), confidence |-> JNum(91456)]),
     JObj([predicted_class |-> JStr("Salmon"), confidence |-> JStr("88%")])}

HitA == Hit("A", 90000, FALSE)
HitB == Hit("B", 80000, TRUE)
HitC == Hit("C", 70000, TRUE)
EdnaBodies ==
    {JNull, JObj([detail |-> JStr("Internal Server Error")])}
    \cup {JObj([detected_species |-> JArr(d)]) : d \in {<<HitA>>, <<HitA, HitB, HitC>>}}
    \cup {JObj([detected_species |-> JArr(d), invasive_species |-> JArr(i)]) :
            d \in {<<HitA>>, <<HitA, HitB, HitC>>},
            i \in {<<>>, <<HitC, HitB>>, <<JStr("B")>>}}

ResponsesOf(bodies) ==
    {NetworkFailure}
    \cup {Garbled(st) : st \in ViewStatuses}
    \cup {Response(st, b) : st \in ViewStatuses, b \in bodies}

(***************************************************************************)
(* App.tsx: the router mounts one view at a time.  A component's state     *)
(* exists while it is mounted; an async function started by an instance    *)
(* runs on after the instance is unmounted, and its setState calls are     *)
(* then without effect.                                                    *)
(***************************************************************************)
Views == {"dashboard", "ocean", "fisheries", "biodiversity"}

\* the Fisheries state with an error message in classifyError
FisheriesInitWithError ==
    [forecastData |-> JNull, selectedFile |-> 0, classificationResult |-> JNull,
     classifyError |-> JStr("Classification failed"), uploading |-> FALSE,
     previewUrl |-> 0]

FisheriesInit ==
    [forecastData |-> JNull, selectedFile |-> 0, classificationResult |-> JNull,
     classifyError |-> JNull, uploading |-> FALSE, previewUrl |-> 0]
\* the OceanData state with useState(false) for loading
OceanInitLoaded == [sstData |-> JNull, depthData |-> JNull, loading |-> FALSE]

OceanInit == [sstData |-> JNull, depthData |-> JNull, loading |-> TRUE]
BiodiversityInit ==
    [selectedFile |-> 0, analysisResults |-> JNull, loading |-> FALSE,
     invasiveAlert |-> JNull]

Task(kind, i, step, file) == [kind |-> kind, inst |-> i, step |-> step, file |-> file]

\* getJson<any>('/forecast_interactive')
ForecastRequest == getJsonRequest(apiBase, <<"/forecast_interactive">>, <<>>, <<>>)

\* <img src={imageUrl('/health-check')} />, fetched by the browser when rendered
HealthCheckImage ==
    [url |-> imageUrl(apiBase, <<"/health-check">>, <<>>), options |-> [method |-> "GET"]]

\* postJson<any>('/api/v1/forecast', {...}): the object is the second argument, params
SstRequest ==
    postJsonRequest(apiBase, <<"/api/v1/forecast">>,
                    <<[key |-> <<"use_default_data">>, value |-> JBool(TRUE)],
                      [key |-> <<"format">>, value |-> Txt(<<"future_interactive">>)],
                      [key |-> <<"future_days">>, value |-> JNum(365)]>>,
                    JUndefined, <<>>)

\* postJson<any>('/api/v1/ocean/depth-profile', {...}): again as params
DepthRequest ==
    postJsonRequest(apiBase, <<"/api/v1/ocean/depth-profile">>,
                    <<[key |-> <<"use_default_data">>, value |-> JBool(TRUE)],
                      [key |-> <<"parameter">>, value |-> Txt(<<"combined">>)],
                      [key |-> <<"format">>, value |-> Txt(<<"interactive">>)]>>,
                    JUndefined, <<>>)

\* the requests a view issues when it mounts
MountRequests(v) ==
    CASE v = "fisheries" -> <<ForecastRequest, HealthCheckImage>>
      [] v = "ocean" -> <<SstRequest>>
      [] OTHER -> <<>>

\* the useEffect(..., []) fetches a view starts when it mounts
MountTasks(v, i) ==
    CASE v = "fisheries" -> {Task("forecast", i, 1, 0)}
      [] v = "ocean" -> {Task("fetchData", i, 1, 0)}
      [] OTHER -> {}

Live(task) == task.inst = inst

\* a cleanup that is never run
RunCleanupSkipped == [urls |-> objectUrls, events |-> <<>>]

\* the cleanup `() => URL.revokeObjectURL(url)` of the preview effect's last run:
\* the URLs left, and the calls made
RunCleanup ==
    IF cleanupUrl = 0
    THEN [urls |-> objectUrls, events |-> <<>>]
    ELSE [urls |-> objectUrls \ {cleanupUrl},
          events |-> <<[op |-> "revoke", url |-> cleanupUrl]>>]

\* a step that is no settling fetch
Step(kind) == [kind |-> kind]

Navigate(v) ==
    /\ v \in Views \ {mounted}
    /\ inst < MaxMounts
    /\ Cardinality(tasks) <= MaxDetached
    /\ mounted' = v
    /\ inst' = inst + 1
    /\ fisheries' = FisheriesInit
    /\ oceanData' = OceanInit
    /\ biodiversity' = BiodiversityInit
    /\ tasks' = tasks \cup MountTasks(v, inst + 1)
    /\ objectUrls' = IF mounted = "fisheries" THEN RunCleanup.urls ELSE objectUrls
    /\ cleanupUrl' = 0
    /\ last' = [kind |-> "navigate", from |-> mounted,
                events |-> IF mounted = "fisheries" THEN RunCleanup.events ELSE <<>>,
                sent |-> MountRequests(v)]
    /\ UNCHANGED <<callCount, rng, urlCount, fileCount, mockLog, call, result, apiBase>>

(***************************************************************************)
(* pages/Fisheries.tsx                                                     *)
(***************************************************************************)
\* fetchForecastData, resumed when its getJson settles with res
ForecastSettle(task, res) ==
    LET r == getJson("/forecast_interactive", res)
        mock == MockPlot("mockForecastInteractive", rng)
        data == IF r.threw THEN mock ELSE r.value
    IN  /\ task \in tasks
        /\ task.kind = "forecast"
        /\ tasks' = tasks \ {task}
        /\ fisheries' = IF Live(task)
                        THEN [fisheries EXCEPT !.forecastData = data]
                        ELSE fisheries
        /\ rng' = IF r.threw THEN Advance(rng, ForecastDraws) ELSE rng
        /\ last' = [kind |-> "forecast", live |-> Live(task),
                    class |-> FailureClass(res), json |-> Parsed(res),
                    mock |-> r.threw, thrown |-> FALSE]
        /\ UNCHANGED <<mounted, inst, oceanData, biodiversity, callCount, objectUrls,
                       urlCount, fileCount, cleanupUrl, mockLog, call, result, apiBase>>

\* the effect without the cleanup function it returns
PreviewEffectNoCleanup(file) ==
    IF file = 0
    THEN [urls |-> objectUrls \ {fisheries.previewUrl},
          events |-> IF fisheries.previewUrl # 0
                     THEN <<[op |-> "revoke", url |-> fisheries.previewUrl]>>
                     ELSE <<>>,
          previewUrl |-> 0, cleanup |-> 0, count |-> urlCount]
    ELSE [urls |-> objectUrls \cup {urlCount + 1},
          events |-> <<[op |-> "create", url |-> urlCount + 1]>>,
          previewUrl |-> urlCount + 1, cleanup |-> urlCount + 1, count |-> urlCount + 1]

\* useEffect(..., [selectedFile]) re-run for the newly selected file: React runs
\* the previous run's cleanup, then the effect body
PreviewEffect(file) ==
    IF file = 0
    THEN [urls |-> RunCleanup.urls \ {fisheries.previewUrl},
          events |-> IF fisheries.previewUrl # 0
                     THEN Append(RunCleanup.events,
                                 [op |-> "revoke", url |-> fisheries.previewUrl])
                     ELSE RunCleanup.events,
          previewUrl |-> 0, cleanup |-> 0, count |-> urlCount]
    ELSE [urls |-> RunCleanup.urls \cup {urlCount + 1},
          events |-> Append(RunCleanup.events, [op |-> "create", url |-> urlCount + 1]),
          previewUrl |-> urlCount + 1, cleanup |-> urlCount + 1, count |-> urlCount + 1]

\* handleFileSelect for a change event that carries a file, with the effect it triggers
FisheriesSelectFile ==
    LET file == fileCount + 1
        eff == PreviewEffect(file)
    IN  /\ mounted = "fisheries"
        /\ fileCount < MaxFiles
        /\ fileCount' = file
        /\ fisheries' = [fisheries EXCEPT !.selectedFile = file,
                                          !.classificationResult = JNull,
                                          !.previewUrl = eff.previewUrl]
        /\ objectUrls' = eff.urls
        /\ cleanupUrl' = eff.cleanup
        /\ urlCount' = eff.count
        /\ last' = [kind |-> "select", events |-> eff.events,
                    hadResult |-> fisheries.classificationResult # JNull,
                    hadAlert |-> FALSE]
        /\ UNCHANGED <<mounted, inst, oceanData, biodiversity, tasks, callCount, rng,
                       mockLog, call, result, apiBase>>

\* handleFileSelect for a change event whose files list is empty
FisheriesSelectNothing ==
    /\ mounted = "fisheries"
    /\ last' = Step("selectNothing")
    /\ UNCHANGED <<mounted, inst, fisheries, oceanData, biodiversity, tasks, callCount,
                   rng, objectUrls, urlCount, fileCount, cleanupUrl, mockLog, call,
                   result, apiBase>>

\* the chain with the first endpoint tried a second time in place of the second
EndpointsRetried ==
    <<"/predict/fish_species", "/predict/fish_species", "/api/v1/fish/classify">>

Endpoints == <<"/predict/fish_species", "/classify/fish", "/api/v1/fish/classify">>

\* postFormData<any>(Endpoints[i], undefined, formData)
ClassifyRequest(i, file) ==
    postFormDataRequest(apiBase, <<Endpoints[i]>>, <<>>, FormDataOf(file), <<>>)

\* handleClassifyFish up to its first await; the button is rendered only with a
\* selected file and is disabled while uploading
HandleClassifyFish ==
    /\ mounted = "fisheries"
    /\ fisheries.selectedFile # 0
    /\ ~fisheries.uploading
    /\ fisheries' = [fisheries EXCEPT !.uploading = TRUE]
    /\ tasks' = tasks \cup {Task("classify", inst, 1, fisheries.selectedFile)}
    /\ last' = [kind |-> "handleClassifyFish",
                sent |-> <<ClassifyRequest(1, fisheries.selectedFile)>>]
    /\ UNCHANGED <<mounted, inst, oceanData, biodiversity, callCount, rng, objectUrls,
                   urlCount, fileCount, cleanupUrl, mockLog, call, result, apiBase>>

\* the statements after `await postFormData(...)` in the i-th try block
ClassifySuccess(i, json) ==
    IF Nullish(json)
    THEN [threw |-> TRUE, error |-> [name |-> "TypeError", status |-> 0]]
    ELSE LET conf == Get(json, "confidence")
             confidenceStr == IF conf.t = "number" THEN Percent(ToFixed2(conf.n)) ELSE conf
             species == IF i = 1 THEN Get(json, "species")
                        ELSE IF Truthy(Get(json, "predicted_class"))
                        THEN Get(json, "predicted_class")
                        ELSE Get(json, "species")
         IN  [threw |-> FALSE,
              value |-> JObj([species |-> species, confidence |-> confidenceStr])]

\* the i-th try block as a whole
ClassifyAttempt(i, res) ==
    LET r == postFormData(Endpoints[i], res)
    IN  IF r.threw THEN r ELSE ClassifySuccess(i, r.value)

\* where the nested try/catch goes once the i-th try block has run: to the finally
\* block, to the next endpoint's try block, or to the mock fallback
AfterAttempt(i, threw) ==
    IF ~threw THEN "finally"
    ELSE IF i < Len(Endpoints) THEN "next"
    ELSE "mock"

\* handleClassifyFish, resumed when the postFormData it awaits settles with res
ClassifySettle(task, res) ==
    LET i == task.step
        a == ClassifyAttempt(i, res)
        to == AfterAttempt(i, a.threw)
        mock == mockFishClassification(callCount, Draw(rng, 0))
        value == IF to = "mock" THEN JObj(mock) ELSE a.value
    IN  /\ task \in tasks
        /\ task.kind = "classify"
        /\ to = "mock" => callCount < MaxCalls
        /\ IF to = "next"
           THEN /\ tasks' = (tasks \ {task})
                              \cup {Task("classify", task.inst, i + 1, task.file)}
                /\ UNCHANGED <<fisheries, callCount, rng, mockLog>>
           ELSE /\ tasks' = tasks \ {task}
                /\ fisheries' =
                     IF ~Live(task) THEN fisheries
                     ELSE IF to \in {"finally", "mock"}
                     THEN [fisheries EXCEPT !.classificationResult = value,
                                            !.classifyError = JNull,
                                            !.uploading = FALSE]
                     ELSE [fisheries EXCEPT !.uploading = FALSE]
                /\ callCount' = IF to = "mock" THEN NextCallCount(callCount) ELSE callCount
                /\ rng' = IF to = "mock" THEN Advance(rng, 1) ELSE rng
                /\ mockLog' = IF to = "mock" THEN Append(mockLog, mock.species.s)
                              ELSE mockLog
        /\ last' = [kind |-> "classify", live |-> Live(task),
                    class |-> FailureClass(res), json |-> Parsed(res),
                    path |-> Endpoints[i], step |-> i, threw |-> a.threw, to |-> to,
                    mock |-> (to = "mock"),
                    thrown |-> (to \notin {"finally", "next", "mock"}),
                    file |-> task.file,
                    sent |-> IF to = "next" THEN <<ClassifyRequest(i + 1, task.file)>>
                             ELSE <<>>]
        /\ UNCHANGED <<mounted, inst, oceanData, biodiversity, objectUrls, urlCount,
                       fileCount, cleanupUrl, call, result, apiBase>>

(***************************************************************************)
(* pages/OceanData.tsx                                                     *)
(***************************************************************************)
\* the statements after `await postJson('/api/v1/ocean/depth-profile', ...)`
DepthSuccess(json) ==
    IF Nullish(json)
    THEN [threw |-> TRUE, error |-> [name |-> "TypeError", status |-> 0]]
    ELSE IF Truthy(Get(json, "plot_data"))
    THEN [threw |-> FALSE,
          value |-> JObj([data |-> Get(Get(json, "plot_data"), "data"),
                          layout |-> Get(Get(json, "plot_data"), "layout")])]
    ELSE [threw |-> FALSE, value |-> json]

\* fetchData, resumed when the postJson it awaits settles with res:
\* step 1 awaits the SST request, step 2 the depth-profile request
OceanSettle(task, res) ==
    LET sst == postJson("/api/v1/forecast", res)
        dep == LET r == postJson("/api/v1/ocean/depth-profile", res)
               IN  IF r.threw THEN r ELSE DepthSuccess(r.value)
        a == IF task.step = 1 THEN sst ELSE dep
        mock == IF task.step = 1 THEN MockPlot("mockSST", rng)
                ELSE MockPlot("mockDepth", rng)
        data == IF a.threw THEN mock ELSE a.value
    IN  /\ task \in tasks
        /\ task.kind = "fetchData"
        /\ tasks' = IF task.step = 1
                    THEN (tasks \ {task}) \cup {Task("fetchData", task.inst, 2, 0)}
                    ELSE tasks \ {task}
        /\ oceanData' =
             IF ~Live(task) THEN oceanData
             ELSE IF task.step = 1 THEN [oceanData EXCEPT !.sstData = data]
             ELSE [oceanData EXCEPT !.depthData = data, !.loading = FALSE]
        /\ rng' = IF a.threw
                  THEN Advance(rng, IF task.step = 1 THEN SstDraws ELSE DepthDraws)
                  ELSE rng
        /\ last' = [kind |-> IF task.step = 1 THEN "sst" ELSE "depth",
                    live |-> Live(task), class |-> FailureClass(res),
                    json |-> Parsed(res), mock |-> a.threw, thrown |-> FALSE,
                    sent |-> IF task.step = 1 THEN <<DepthRequest>> ELSE <<>>]
        /\ UNCHANGED <<mounted, inst, fisheries, biodiversity, callCount, objectUrls,
                       urlCount, fileCount, cleanupUrl, mockLog, call, result, apiBase>>

(***************************************************************************)
(* pages/Biodiversity.tsx                                                  *)
(***************************************************************************)
\* handleFileSelect without its setInvasiveAlert(null)
BiodiversitySelectFileKeepAlert ==
    /\ mounted = "biodiversity"
    /\ fileCount < MaxFiles
    /\ fileCount' = fileCount + 1
    /\ biodiversity' = [biodiversity EXCEPT !.selectedFile = fileCount + 1,
                                            !.analysisResults = JNull]
    /\ last' = [kind |-> "select", events |-> <<>>,
                hadResult |-> biodiversity.analysisResults # JNull,
                hadAlert |-> biodiversity.invasiveAlert # JNull]
    /\ UNCHANGED <<mounted, inst, fisheries, oceanData, tasks, callCount, rng, objectUrls,
                   urlCount, cleanupUrl, mockLog, call, result, apiBase>>

\* handleFileSelect for a change event that carries a file
BiodiversitySelectFile ==
    /\ mounted = "biodiversity"
    /\ fileCount < MaxFiles
    /\ fileCount' = fileCount + 1
    /\ biodiversity' = [biodiversity EXCEPT !.selectedFile = fileCount + 1,
                                            !.analysisResults = JNull,
                                            !.invasiveAlert = JNull]
    /\ last' = [kind |-> "select", events |-> <<>>,
                hadResult |-> biodiversity.analysisResults # JNull,
                hadAlert |-> biodiversity.invasiveAlert # JNull]
    /\ UNCHANGED <<mounted, inst, fisheries, oceanData, tasks, callCount, rng, objectUrls,
                   urlCount, cleanupUrl, mockLog, call, result, apiBase>>

\* handleFileSelect for a change event whose files list is empty
BiodiversitySelectNothing ==
    /\ mounted = "biodiversity"
    /\ last' = Step("selectNothing")
    /\ UNCHANGED <<mounted, inst, fisheries, oceanData, biodiversity, tasks, callCount,
                   rng, objectUrls, urlCount, fileCount, cleanupUrl, mockLog, call,
                   result, apiBase>>

\* fetch('http://127.0.0.1:8000/api/v1/edna/analyze', {method: 'POST', body: formData})
EdnaRequest(file) ==
    [url |-> [threw |-> FALSE,
              value |-> <<"h", "t", "t", "p", ":", "/", "/", "1", "2", "7", ".", "0", ".",
                          "0", ".", "1", ":", "8", "0", "0", "0", "/api/v1/edna/analyze">>],
     options |-> [method |-> "POST", body |-> FormDataOf(file)]]

\* handleAnalyzeeDNA without its setLoading(true)
HandleAnalyzeeDNAUnflagged ==
    /\ mounted = "biodiversity"
    /\ biodiversity.selectedFile # 0
    /\ ~biodiversity.loading
    /\ tasks' = tasks \cup {Task("edna", inst, 1, biodiversity.selectedFile)}
    /\ last' = [kind |-> "handleAnalyzeeDNA",
                sent |-> <<EdnaRequest(biodiversity.selectedFile)>>]
    /\ UNCHANGED <<mounted, inst, fisheries, oceanData, biodiversity, callCount, rng,
                   objectUrls, urlCount, fileCount, cleanupUrl, mockLog, call, result,
                   apiBase>>

\* handleAnalyzeeDNA up to its await; the button is rendered only with a selected
\* file and is disabled while loading
HandleAnalyzeeDNA ==
    /\ mounted = "biodiversity"
    /\ biodiversity.selectedFile # 0
    /\ ~biodiversity.loading
    /\ biodiversity' = [biodiversity EXCEPT !.loading = TRUE]
    /\ tasks' = tasks \cup {Task("edna", inst, 1, biodiversity.selectedFile)}
    /\ last' = [kind |-> "handleAnalyzeeDNA",
                sent |-> <<EdnaRequest(biodiversity.selectedFile)>>]
    /\ UNCHANGED <<mounted, inst, fisheries, oceanData, callCount, rng, objectUrls,
                   urlCount, fileCount, cleanupUrl, mockLog, call, result, apiBase>>

\* v.length > 0 for an array v (undefined > 0 is false for a value without length)
NonEmpty(v) == v.t = "array" /\ Len(v.a) > 0

\* the try block of handleAnalyzeeDNA: fetch, response.json(), and the statements
\* after them; which state cells it sets, and to what
EdnaTry(res) ==
    IF res.net = "fail"
    THEN [threw |-> TRUE, error |-> [name |-> "TypeError", status |-> 0]]
    ELSE IF ~res.parseable
    THEN [threw |-> TRUE, error |-> [name |-> "SyntaxError", status |-> 0]]
    ELSE IF Nullish(res.json)
    THEN [threw |-> TRUE, error |-> [name |-> "TypeError", status |-> 0]]
    ELSE IF ~Truthy(Get(res.json, "detected_species"))
    THEN [threw |-> FALSE, setResults |-> FALSE, setAlert |-> FALSE]
    ELSE LET sub == Get(res.json, "invasive_species")
             invasive == IF Truthy(sub) /\ NonEmpty(sub) THEN sub.a[1] ELSE JNull
         IN  IF Truthy(invasive)
             THEN [threw |-> FALSE, setResults |-> TRUE,
                   results |-> Get(res.json, "detected_species"), setAlert |-> TRUE,
                   alert |-> IF Truthy(Get(invasive, "species"))
                             THEN Get(invasive, "species") ELSE invasive]
             ELSE [threw |-> FALSE, setResults |-> TRUE,
                   results |-> Get(res.json, "detected_species"), setAlert |-> FALSE]

\* the catch block of handleAnalyzeeDNA
EdnaCatch ==
    LET mockResults == getMockeDNAResults
        invasive == FindInvasive(mockResults)
    IN  IF Truthy(invasive)
        THEN [threw |-> FALSE, setResults |-> TRUE, results |-> JArr(mockResults),
              setAlert |-> TRUE, alert |-> Get(invasive, "species")]
        ELSE [threw |-> FALSE, setResults |-> TRUE, results |-> JArr(mockResults),
              setAlert |-> FALSE]

\* handleAnalyzeeDNA, resumed when its fetch settles with res
EdnaSettle(task, res) ==
    LET t == EdnaTry(res)
        e == IF t.threw THEN EdnaCatch ELSE t
        b1 == IF e.setResults THEN [biodiversity EXCEPT !.analysisResults = e.results]
              ELSE biodiversity
        b2 == IF e.setAlert THEN [b1 EXCEPT !.invasiveAlert = e.alert] ELSE b1
    IN  /\ task \in tasks
        /\ task.kind = "edna"
        /\ tasks' = tasks \ {task}
        /\ biodiversity' = IF Live(task) THEN [b2 EXCEPT !.loading = FALSE]
                           ELSE biodiversity
        /\ last' = [kind |-> "edna", live |-> Live(task),
                    class |-> FailureClass(res), json |-> res.json,
                    mock |-> t.threw,
                    thrown |-> e.threw, accepted |-> e.setResults, file |-> task.file]
        /\ UNCHANGED <<mounted, inst, fisheries, oceanData, callCount, rng, objectUrls,
                       urlCount, fileCount, cleanupUrl, mockLog, call, result, apiBase>>

(***************************************************************************)
(* The application: the dashboard is mounted first.                        *)
(***************************************************************************)
ViewInit ==
    /\ mounted = "dashboard"
    /\ inst = 0
    /\ fisheries = FisheriesInit
    /\ oceanData = OceanInit
    /\ biodiversity = BiodiversityInit
    /\ tasks = {}
    /\ callCount = 0
    /\ objectUrls = {}
    /\ urlCount = 0
    /\ fileCount = 0
    /\ cleanupUrl = 0
    /\ mockLog = <<>>
    /\ last = Step("init")

Init ==
    /\ ViewInit
    /\ rng = [cur |-> RngMod - 1, step |-> 0]
    /\ call = [fn |-> "none"]
    /\ result = [fn |-> "none"]
    /\ apiBase = <<>>

\* one view next to the dashboard
FisheriesNext ==
    \/ \E v \in {"dashboard", "fisheries"} : Navigate(v)
    \/ \E task \in tasks, res \in ResponsesOf({JNull, ServerPlot}) : ForecastSettle(task, res)
    \/ FisheriesSelectFile
    \/ FisheriesSelectNothing
    \/ HandleClassifyFish
    \/ \E task \in tasks, res \in ResponsesOf(ClassifyBodies) : ClassifySettle(task, res)

OceanNext ==
    \/ \E v \in {"dashboard", "ocean"} : Navigate(v)
    \/ \E task \in tasks, res \in ResponsesOf(PlotBodies) : OceanSettle(task, res)

BiodiversityNext ==
    \/ \E v \in {"dashboard", "biodiversity"} : Navigate(v)
    \/ BiodiversitySelectFile
    \/ BiodiversitySelectNothing
    \/ HandleAnalyzeeDNA
    \/ \E task \in tasks, res \in ResponsesOf(EdnaBodies) : EdnaSettle(task, res)

SpecFisheries == Init /\ [][FisheriesNext]_vars
SpecOcean == Init /\ [][OceanNext]_vars
SpecBiodiversity == Init /\ [][BiodiversityNext]_vars

\* the whole application
Next ==
    \/ \E v \in Views : Navigate(v)
    \/ \E task \in tasks, res \in ResponsesOf({JNull, ServerPlot}) : ForecastSettle(task, res)
    \/ FisheriesSelectFile
    \/ FisheriesSelectNothing
    \/ HandleClassifyFish
    \/ \E task \in tasks, res \in ResponsesOf(ClassifyBodies) : ClassifySettle(task, res)
    \/ \E task \in tasks, res \in ResponsesOf(PlotBodies) : OceanSettle(task, res)
    \/ BiodiversitySelectFile
    \/ BiodiversitySelectNothing
    \/ HandleAnalyzeeDNA
    \/ \E task \in tasks, res \in ResponsesOf(EdnaBodies) : EdnaSettle(task, res)

Spec == Init /\ [][Next]_vars

\* the two views with a file upload, each backend call either unreachable or
\* answered with one result
UploadNext ==
    \/ \E v \in {"dashboard", "fisheries", "biodiversity"} : Navigate(v)
    \/ \E task \in tasks, res \in {NetworkFailure, Response(200, ServerPlot)} :
          ForecastSettle(task, res)
    \/ FisheriesSelectFile
    \/ FisheriesSelectNothing
    \/ HandleClassifyFish
    \/ \E task \in tasks,
          res \in {NetworkFailure,
                   Response(200, JObj([species |-> JStr("Tuna"),
                                       confidence |-> JNum(91456)]))} :
          ClassifySettle(task, res)
    \/ BiodiversitySelectFile
    \/ BiodiversitySelectNothing
    \/ HandleAnalyzeeDNA
    \/ \E task \in tasks,
          res \in {NetworkFailure,
                   Response(200, JObj([detected_species |-> JArr(<<HitA>>)]))} :
          EdnaSettle(task, res)

SpecUpload == Init /\ [][UploadNext]_vars

\* the link the user follows next on a tour of the three views
Tour(v) ==
    CASE v = "ocean" -> "fisheries"
      [] v = "fisheries" -> "biodiversity"
      [] OTHER -> "ocean"

\* a tour of the three views with the steps that start or resume a fetch; each
\* backend call is either unreachable or answered with one result
ViewsNext ==
    \/ Navigate(Tour(mounted))
    \/ \E task \in tasks : ForecastSettle(task, Response(200, ServerPlot))
    \/ FisheriesSelectFile
    \/ HandleClassifyFish
    \/ \E task \in tasks,
          res \in {NetworkFailure,
                   Response(200, JObj([species |-> JStr("Tuna"),
                                       confidence |-> JNum(91456)]))} :
          ClassifySettle(task, res)
    \/ \E task \in tasks, res \in {NetworkFailure, Response(200, ServerPlot)} :
          OceanSettle(task, res)
    \/ BiodiversitySelectFile
    \/ HandleAnalyzeeDNA
    \/ \E task \in tasks,
          res \in {NetworkFailure,
                   Response(200, JObj([detected_species |-> JArr(<<HitA>>)])),
                   Response(500, JObj([detail |-> JStr("Internal Server Error")]))} :
          EdnaSettle(task, res)

SpecViews == Init /\ [][ViewsNext]_vars

\* the tour with every classification request and every eDNA request settling
\* eventually
SpecViewsSettling ==
    /\ SpecViews
    /\ WF_vars(\E task \in tasks,
                  res \in {NetworkFailure,
                           Response(200, JObj([species |-> JStr("Tuna"),
                                               confidence |-> JNum(91456)]))} :
                  ClassifySettle(task, res))
    /\ WF_vars(\E task \in tasks,
                  res \in {NetworkFailure,
                           Response(200, JObj([detected_species |-> JArr(<<HitA>>)])),
                           Response(500, JObj([detail |-> JStr("Internal Server Error")]))} :
                  EdnaSettle(task, res))

(***************************************************************************)
(* Properties of the views                                                 *)
(***************************************************************************)
\* the three classes of failure of a backend call
Failed(class) == class \in {"transport", "status", "parse"}

\* v is the plot the generator name returned
IsMock(v, name) == "mock" \in DOMAIN v /\ v.mock = name

\* C1: in handleClassifyFish the endpoints are requested in the order
\* /predict/fish_species, /classify/fish, /api/v1/fish/classify, a later one only
\* after the request to the one before it failed; mockFishClassification is invoked
\* only after the third request failed too, its result is then the classification
\* result held, and no exception leaves handleClassifyFish.
C1_FallbackChain ==
    last.kind = "classify" =>
        /\ last.path = <<"/predict/fish_species", "/classify/fish",
                         "/api/v1/fish/classify">>[last.step]
        /\ last.to \in {"next", "mock"} => Failed(last.class)
        /\ last.mock => /\ last.step = 3
                        /\ last.live =>
                             /\ fisheries.classificationResult.t = "object"
                             /\ fisheries.classificationResult.o.species.s
                                  = mockLog[Len(mockLog)]
        /\ ~last.thrown

\* C2: for every fetchable slot and each of the three failure classes, a backend
\* call that fails in that way ends with the slot holding the mock generator's
\* output (for the classification, the call to the last endpoint).
C2_EveryFailureMocked ==
    (last.kind \in {"forecast", "sst", "depth", "classify", "edna"}
       /\ last.live /\ Failed(last.class)) =>
        CASE last.kind = "forecast" ->
               IsMock(fisheries.forecastData, "mockForecastInteractive")
          [] last.kind = "sst" -> IsMock(oceanData.sstData, "mockSST")
          [] last.kind = "depth" -> IsMock(oceanData.depthData, "mockDepth")
          [] last.kind = "classify" ->
               last.step = 3 => /\ last.mock
                                /\ fisheries.classificationResult.t = "object"
          [] OTHER -> biodiversity.analysisResults = JArr(getMockeDNAResults)

\* the hits the Biodiversity view holds
HeldHits ==
    IF biodiversity.analysisResults.t = "array" THEN biodiversity.analysisResults.a
    ELSE <<>>

\* C3: in every state of the Biodiversity view the invasive alert is shown if and
\* only if a hit of the held result set has invasive == true, and it names the
\* first such hit in sequence order.
C3_AlertIffInvasiveHit ==
    mounted = "biodiversity" =>
        IF Truthy(FindInvasive(HeldHits))
        THEN biodiversity.invasiveAlert = Get(FindInvasive(HeldHits), "species")
        ELSE biodiversity.invasiveAlert = JNull

\* C4: when an eDNA result, from the server or the mock, is accepted, the banner
\* is derived from the first element of the result's invasive_species subset if
\* that is present and non-empty; otherwise the detected result set is scanned and
\* the banner is derived from its first hit with invasive == true, if any.
C4_BannerFromSubsetElseScan ==
    (last.kind = "edna" /\ last.live /\ last.accepted) =>
        LET sub == IF last.mock THEN JUndefined ELSE Get(last.json, "invasive_species")
            first == IF NonEmpty(sub) THEN sub.a[1] ELSE FindInvasive(HeldHits)
        IN  Truthy(first) =>
              biodiversity.invasiveAlert =
                 IF Truthy(Get(first, "species")) THEN Get(first, "species") ELSE first

\* C5: the n-th call of mockFishClassification since module load, whichever view
\* instance makes it, returns the species at index (n-1) mod 3 of
\* [Neon Tetra, Zebra Danio, Clownfish]; the counter is the number of calls made.
C5_RoundRobin ==
    /\ callCount = Len(mockLog)
    /\ \A n \in DOMAIN mockLog :
         mockLog[n] = <<"Neon Tetra", "Zebra Danio", "Clownfish">>[((n - 1) % 3) + 1]

\* the fourth call, made by an instance that is no longer mounted
C5_Witness ==
    /\ Len(mockLog) >= 4
    /\ last.kind = "classify"
    /\ last.mock
    /\ ~last.live
    /\ mockLog[4] = "Neon Tetra"

\* C6: in Fisheries, selecting a file while a preview URL exists revokes that URL
\* before the new file's URL is created, and once the new URL exists no URL
\* created for an earlier selection is left unrevoked.
C6_RevokeBeforeCreate ==
    [][(mounted = "fisheries" /\ last'.kind = "select"
          /\ fisheries'.selectedFile # fisheries.selectedFile) =>
         /\ fisheries'.previewUrl \notin {0, fisheries.previewUrl}
         /\ objectUrls' = {fisheries'.previewUrl}
         /\ last'.events =
              (IF fisheries.previewUrl # 0
               THEN <<[op |-> "revoke", url |-> fisheries.previewUrl]>> ELSE <<>>)
              \o <<[op |-> "create", url |-> fisheries'.previewUrl]>>]_vars

\* file2 selected while file1's preview URL existed
C6_Witness ==
    /\ mounted = "fisheries"
    /\ last.kind = "select"
    /\ Len(last.events) = 2
    /\ last.events[1].op = "revoke"
    /\ last.events[2].op = "create"
    /\ objectUrls = {last.events[2].url}

\* the species a classification response carries, under either field
CarriedSpecies(json) ==
    IF Truthy(Get(json, "species")) THEN Get(json, "species")
    ELSE Get(json, "predicted_class")

\* a settle step of handleClassifyFish whose request succeeded with a JSON object,
\* taken while the instance is mounted
ClassifySucceeded ==
    /\ last.kind = "classify"
    /\ last.live
    /\ last.class = "none"
    /\ last.json.t = "object"

\* C11: for each of the three classification endpoints, a successful response that
\* carries the species under the field species or under the field predicted_class
\* yields a classification result whose species is that value.
C11_SpeciesFromEitherField ==
    (ClassifySucceeded /\ Truthy(CarriedSpecies(last.json))) =>
        /\ fisheries.classificationResult.t = "object"
        /\ fisheries.classificationResult.o.species = CarriedSpecies(last.json)

\* C12: for a successful response from any of the three endpoints, a confidence
\* that arrives as a number is stored as that number to 2 decimal places (the
\* nearest 1/100 of the number given in 1/1000) followed by '%', and a confidence
\* that arrives as a string is stored unchanged.
C12_ConfidenceFormat ==
    ClassifySucceeded =>
        LET conf == Get(last.json, "confidence")
            stored == fisheries.classificationResult.o.confidence
        IN  /\ conf.t = "number" =>
                 /\ stored.t = "string"
                 /\ stored.suffix = "%"
                 /\ 10 * stored.fixed2 - 5 <= conf.n
                 /\ conf.n < 10 * stored.fixed2 + 5
            /\ conf.t = "string" => stored = conf

\* the number 91.456 answered by the third endpoint and stored as '91.46%'
C12_Witness ==
    /\ ClassifySucceeded
    /\ last.step = 3
    /\ Get(last.json, "confidence") = JNum(91456)
    /\ fisheries.classificationResult.o.confidence
         = [t |-> "string", fixed2 |-> 9146, suffix |-> "%"]

\* C13: in the Fisheries view classifyError is null in every reachable state.
C13_ClassifyErrorNull == fisheries.classifyError = JNull

\* classifications that ended at an endpoint and in the mock fallback leave it null
C13_Witness ==
    /\ last.kind = "classify"
    /\ last.live
    /\ last.mock
    /\ fisheries.classificationResult.t = "object"
    /\ fisheries.classifyError = JNull

\* the fetches a mounted view has in flight
InFlight == {task \in tasks : Live(task)}

\* C14: for each view, at no time are two backend fetches issued by that view in
\* flight concurrently.
C14_OneFetchInFlight == Cardinality(InFlight) <= 1

\* the requests the step just taken issued
Sent == IF "sent" \in DOMAIN last THEN last.sent ELSE <<>>

\* the request r goes to the path, and carries the fields as keys of a JSON object
\* that is its body
ToPath(r, path) == \E i \in DOMAIN r.url.value : r.url.value[i] = path
JsonBodyWith(r, fields) ==
    /\ r.options.body.t = "string"
    /\ \A f \in fields :
         \E i \in DOMAIN r.options.body.chars :
            /\ r.options.body.chars[i] = f
            /\ i > 1 /\ r.options.body.chars[i - 1] = "\""
            /\ i + 2 <= Len(r.options.body.chars)
            /\ r.options.body.chars[i + 1] = "\""
            /\ r.options.body.chars[i + 2] = ":"

\* C15: the OceanData view's POST to /api/v1/forecast carries the fields
\* use_default_data, format and future_days, and its POST to
\* /api/v1/ocean/depth-profile the fields use_default_data, parameter and format,
\* both as a JSON-encoded request body.
C15_FieldsInJsonBody ==
    \A i \in DOMAIN Sent :
        /\ ToPath(Sent[i], "/api/v1/forecast") =>
             /\ Sent[i].options.method = "POST"
             /\ JsonBodyWith(Sent[i], {"use_default_data", "format", "future_days"})
        /\ ToPath(Sent[i], "/api/v1/ocean/depth-profile") =>
             /\ Sent[i].options.method = "POST"
             /\ JsonBodyWith(Sent[i], {"use_default_data", "parameter", "format"})

\* text begins with prefix
BeginsWith(text, prefix) ==
    Len(text) >= Len(prefix) /\ SubSeq(text, 1, Len(prefix)) = prefix

\* C16: every backend request the views issue is addressed to the configured base
\* address: VITE_API_BASE when set, otherwise http://127.0.0.1:8000.
C16_ConfiguredBase ==
    \A i \in DOMAIN Sent :
        /\ ~Sent[i].url.threw
        /\ BeginsWith(Sent[i].url.value,
                      IF apiBase # <<>> THEN apiBase
                      ELSE <<"h", "t", "t", "p", ":", "/", "/", "1", "2", "7", ".", "0",
                             ".", "0", ".", "1", ":", "8", "0", "0", "0">>)

\* C19: handleFileSelect with a file sets classificationResult to null in
\* Fisheries, and analysisResults and invasiveAlert to null in Biodiversity; a
\* selection event without a file leaves selectedFile, the result and the alert
\* as they are.
C19_SelectClearsResult ==
    [][/\ (mounted = "fisheries" /\ last'.kind = "select") =>
            /\ fisheries'.selectedFile \notin {0, fisheries.selectedFile}
            /\ fisheries'.classificationResult = JNull
       /\ (mounted = "biodiversity" /\ last'.kind = "select") =>
            /\ biodiversity'.selectedFile \notin {0, biodiversity.selectedFile}
            /\ biodiversity'.analysisResults = JNull
            /\ biodiversity'.invasiveAlert = JNull
       /\ last'.kind = "selectNothing" =>
            /\ fisheries'.selectedFile = fisheries.selectedFile
            /\ fisheries'.classificationResult = fisheries.classificationResult
            /\ biodiversity'.selectedFile = biodiversity.selectedFile
            /\ biodiversity'.analysisResults = biodiversity.analysisResults
            /\ biodiversity'.invasiveAlert = biodiversity.invasiveAlert]_vars

\* a second eDNA file selected while results and an alert were shown
C19_Witness ==
    /\ mounted = "biodiversity"
    /\ last.kind = "select"
    /\ last.hadResult
    /\ last.hadAlert
    /\ biodiversity.selectedFile = 2
    /\ biodiversity.analysisResults = JNull
    /\ biodiversity.invasiveAlert = JNull

\* C22: for each fetchable slot (forecast, SST, depth, classification, eDNA), every
\* fetch cycle whose backend call settles ends in Ready: the step that ends the
\* cycle leaves non-empty data in the slot (of the instance that started it, while
\* it is mounted), a step that does not end the cycle does not assign the slot, and
\* after it the slot changes only with a file selection or a remount.
C22_SettledCycleReady ==
    [][/\ (last'.kind = "forecast" /\ last'.live) => ~Nullish(fisheries'.forecastData)
       /\ (last'.kind = "sst" /\ last'.live) => ~Nullish(oceanData'.sstData)
       /\ (last'.kind = "depth" /\ last'.live) => ~Nullish(oceanData'.depthData)
       /\ (last'.kind = "classify" /\ last'.live /\ last'.to # "next") =>
            ~Nullish(fisheries'.classificationResult)
       /\ (last'.kind = "edna" /\ last'.live) => ~Nullish(biodiversity'.analysisResults)
       /\ fisheries'.forecastData # fisheries.forecastData =>
            last'.kind \in {"forecast", "navigate"}
       /\ oceanData'.sstData # oceanData.sstData => last'.kind \in {"sst", "navigate"}
       /\ oceanData'.depthData # oceanData.depthData =>
            last'.kind \in {"depth", "navigate"}
       /\ fisheries'.classificationResult # fisheries.classificationResult =>
            \/ last'.kind \in {"select", "navigate"}
            \/ last'.kind = "classify" /\ last'.to # "next"
       /\ biodiversity'.analysisResults # biodiversity.analysisResults =>
            last'.kind \in {"edna", "select", "navigate"}]_vars

\* C24: the classification fallback chain short-circuits on first success: once a
\* request to one of the three endpoints has succeeded (a 2xx response with
\* parseable JSON, whatever the JSON value), no later endpoint is requested and
\* mockFishClassification is not invoked, so the rotation counter is unchanged.
C24_ShortCircuitOnSuccess ==
    [][(last'.kind = "classify" /\ last'.class = "none") =>
         /\ last'.to = "finally"
         /\ Sent' = <<>>
         /\ ~last'.mock
         /\ callCount' = callCount
         /\ mockLog' = mockLog]_vars

\* C26: when the depth-profile backend call succeeds, OceanData stores {data, layout}
\* taken from response.plot_data if the response has a plot_data field, and stores
\* the response itself otherwise; in both cases the stored document has the data
\* and layout of the backend's plot and the mock generator is not used.
C26_DepthFromPlotData ==
    (last.kind = "depth" /\ last.live /\ last.class = "none") =>
        LET plot == IF Get(last.json, "plot_data") # JUndefined
                    THEN Get(last.json, "plot_data") ELSE last.json
        IN  /\ ~last.mock
            /\ ~IsMock(oceanData.depthData, "mockDepth")
            /\ oceanData.depthData =
                 (IF Get(last.json, "plot_data") # JUndefined
                  THEN JObj([data |-> Get(plot, "data"), layout |-> Get(plot, "layout")])
                  ELSE last.json)
            /\ Get(oceanData.depthData, "data") = Get(plot, "data")
            /\ Get(oceanData.depthData, "layout") = Get(plot, "layout")

\* C27: in OceanData the depth-profile request is issued only after the SST request
\* has settled (success or failure) and the SST slot has been assigned, and loading
\* becomes false only after both the SST slot and the depth slot have been
\* assigned; hence in every state with loading == false both awaits of fetchData
\* are behind it and both slots have been assigned from the backend or the mock
\* generator, independently of each other's origin.
C27_SstBeforeDepthBeforeLoaded ==
    [][/\ (\E i \in DOMAIN Sent' : ToPath(Sent'[i], "/api/v1/ocean/depth-profile")) =>
            /\ last'.kind = "sst"
            /\ last'.live =>
                 oceanData'.sstData =
                    (IF last'.mock THEN [t |-> "object", mock |-> "mockSST", g |-> rng]
                     ELSE last'.json)
       /\ oceanData'.sstData # oceanData.sstData => last'.kind \in {"sst", "navigate"}
       /\ (oceanData.loading /\ ~oceanData'.loading) =>
            /\ last'.kind = "depth"
            /\ oceanData'.sstData = oceanData.sstData
            /\ \/ oceanData'.depthData = [t |-> "object", mock |-> "mockDepth", g |-> rng]
               \/ /\ ~last'.mock
                  /\ oceanData'.depthData.t = "object"
                  /\ oceanData'.depthData
                       \in {last'.json,
                            JObj([data |-> Get(Get(last'.json, "plot_data"), "data"),
                                  layout |-> Get(Get(last'.json, "plot_data"),
                                                 "layout")])}
       /\ (mounted' = "ocean" /\ ~oceanData'.loading) =>
            /\ ~\E t \in tasks' : t.kind = "fetchData" /\ t.inst = inst'
            /\ oceanData'.depthData # JNull]_vars

\* the view loaded with the SST plot from the mock generator and the depth plot
\* from the backend
C27_Witness ==
    /\ mounted = "ocean"
    /\ ~oceanData.loading
    /\ IsMock(oceanData.sstData, "mockSST")
    /\ oceanData.depthData =
         JObj([data |-> JArr(<<JStr("trace")>>), layout |-> JStr("server layout")])

\* C28: in Fisheries and Biodiversity, whenever the held result is non-null it is
\* the outcome of a request issued for the currently selected file: a response that
\* arrives after a new file was selected does not populate the result slot.  The
\* slot is filled only by the step that ends a classification or an analysis, and
\* a selection empties it, so this is stated of every such step.
C28_ResultOfSelectedFile ==
    /\ (last.kind = "classify" /\ last.live
          /\ fisheries.classificationResult # JNull) =>
            last.file = fisheries.selectedFile
    /\ (last.kind = "edna" /\ last.live /\ biodiversity.analysisResults # JNull) =>
            last.file = biodiversity.selectedFile

\* the URL.createObjectURL and URL.revokeObjectURL calls of the step just taken
Events == IF "events" \in DOMAIN last THEN last.events ELSE <<>>

\* C29: in Fisheries, over any sequence of file selections followed by unmount, at
\* most one created-and-not-yet-revoked preview URL exists at any time, every
\* created preview URL is revoked exactly once (a revoke call is made only for a
\* URL that is still unrevoked, and a URL is never created twice), and none remains
\* unrevoked after the view has unmounted.
C29_PreviewUrlLifecycle ==
    [][/\ Cardinality(objectUrls') <= 1
       /\ \A i \in DOMAIN Events' :
            /\ Events'[i].op = "revoke" =>
                 /\ Events'[i].url \in objectUrls
                 /\ Events'[i].url \notin objectUrls'
                 /\ \A j \in DOMAIN Events' : Events'[j] = Events'[i] => j = i
            /\ Events'[i].op = "create" =>
                 /\ Events'[i].url > urlCount
                 /\ Events'[i].url \in objectUrls'
       /\ objectUrls' \ objectUrls
            = {Events'[i].url : i \in {j \in DOMAIN Events' : Events'[j].op = "create"}}
       /\ objectUrls \ objectUrls'
            = {Events'[i].url : i \in {j \in DOMAIN Events' : Events'[j].op = "revoke"}}
       /\ mounted' # "fisheries" => objectUrls' = {}
       /\ mounted' = "fisheries" => objectUrls' = {fisheries'.previewUrl} \ {0}]_vars

\* two files selected, the first one's URL revoked at the second selection, and the
\* view then unmounted: the second URL is revoked and none is left
C29_Witness ==
    /\ last.kind = "navigate"
    /\ last.from = "fisheries"
    /\ urlCount = 2
    /\ last.events = <<[op |-> "revoke", url |-> 2]>>
    /\ objectUrls = {}

\* the chains of kind k the mounted instance has started and that have not settled
Unsettled(k) == {t \in tasks : t.kind = k /\ t.inst = inst}

\* C30: the in-progress flags are reset on every path.  Fisheries.uploading
\* (Biodiversity.loading) is true exactly while a classification chain (eDNA
\* request) started by the view is unsettled; while the flag is true no second
\* chain can be started from the same view; and provided every issued request
\* eventually settles, the flag eventually returns to false, whether the outcome
\* was success at any endpoint, the mock fallback, or a response that was ignored.
C30_FlagsReset ==
    /\ [](fisheries.uploading <=> mounted = "fisheries" /\ Unsettled("classify") # {})
    /\ [](biodiversity.loading <=> mounted = "biodiversity" /\ Unsettled("edna") # {})
    /\ [](Cardinality(Unsettled("classify")) <= 1 /\ Cardinality(Unsettled("edna")) <= 1)
    /\ [][/\ last'.kind = "handleClassifyFish" => ~fisheries.uploading
          /\ last'.kind = "handleAnalyzeeDNA" => ~biodiversity.loading]_vars
    /\ (fisheries.uploading ~> ~fisheries.uploading)
    /\ (biodiversity.loading ~> ~biodiversity.loading)

\* an eDNA response without detected_species was ignored and loading is false again
C30_Witness ==
    /\ last.kind = "edna"
    /\ last.live
    /\ ~last.mock
    /\ ~last.accepted
    /\ biodiversity.analysisResults = JNull
    /\ ~biodiversity.loading

\* the kind of the step in which a suspended async function of kind k resumes
SettleKinds(k) == IF k = "fetchData" THEN {"sst", "depth"} ELSE {k}

\* C23: there are no retries and no timeouts.  Within one fetch cycle each backend
\* endpoint is requested at most once: a request is issued only when a cycle starts
\* or when the request before it in the cycle has settled, and then to the next
\* endpoint (at most three per classification, two per OceanData mount).  While a
\* request of a mounted view has not settled the view stays blocked: its flag
\* (OceanData.loading, Fisheries.uploading, Biodiversity.loading) is true, no step
\* but the settling of the request ends the wait, and no later request of the cycle
\* is issued.
C23_NoRetryNoTimeout ==
    [][/\ last'.kind = "classify" =>
            \/ Sent' = <<>> /\ last'.to # "next"
            \/ /\ last'.to = "next"
               /\ last'.step < 3
               /\ Len(Sent') = 1
               /\ ToPath(Sent'[1], <<"/predict/fish_species", "/classify/fish",
                                     "/api/v1/fish/classify">>[last'.step + 1])
       /\ last'.kind = "sst" =>
            Len(Sent') = 1 /\ ToPath(Sent'[1], "/api/v1/ocean/depth-profile")
       /\ last'.kind \in {"depth", "forecast", "edna"} => Sent' = <<>>
       /\ \A t \in tasks' :
            /\ t.kind = "classify" => t.step \in 1..3
            /\ t.kind = "fetchData" => t.step \in 1..2
            /\ t.kind \in {"forecast", "edna"} => t.step = 1
            /\ \A u \in tasks' : (u.inst = t.inst /\ u.kind = t.kind) => u = t
            /\ t.inst = inst' =>
                 CASE t.kind = "classify" -> fisheries'.uploading
                   [] t.kind = "fetchData" -> oceanData'.loading
                   [] t.kind = "edna" -> biodiversity'.loading
                   [] OTHER -> TRUE
       /\ \A t \in tasks \ tasks' : last'.kind \in SettleKinds(t.kind)
       /\ (fisheries.uploading /\ ~fisheries'.uploading) =>
            last'.kind \in {"classify", "navigate"}
       /\ (oceanData.loading /\ ~oceanData'.loading) => last'.kind = "depth"
       /\ (biodiversity.loading /\ ~biodiversity'.loading) =>
            last'.kind \in {"edna", "navigate"}]_vars

\* the third endpoint requested after the first two failed, the view still blocked
C23_Witness ==
    /\ last.kind = "classify"
    /\ last.step = 2
    /\ last.to = "next"
    /\ \E t \in tasks : t.kind = "classify" /\ t.step = 3 /\ t.inst = inst
    /\ fisheries.uploading

(***************************************************************************)
(* utils/api called directly: one call per run, its arguments in `call`    *)
(* and what it returned or threw in `result`.                              *)
(***************************************************************************)
MaxParams == 2      \* entries of a params object

KeyA == <<"a">>
KeyB == <<"b">>

\* '/f', '/f?a=1', '/f?b=3&a=1&a=2', 'https://h/f?a=1', 'httpd/f'
Paths ==
    {<<"/", "f">>,
     <<"/", "f", "?", "a", "=", "1">>,
     <<"/", "f", "?", "b", "=", "3", "&", "a", "=", "1", "&", "a", "=", "2">>,
     <<"h", "t", "t", "p", "s", ":", "/", "/", "h", "/", "f", "?", "a", "=", "1">>,
     <<"h", "t", "t", "p", "d", "/", "f">>}

\* VITE_API_BASE unset, or 'http://api'
Envs == {<<>>, <<"h", "t", "t", "p", ":", "/", "/", "a", "p", "i">>}

ParamValues ==
    {JUndefined, JNull, JNum(365), JNum(0), JBool(TRUE), JBool(FALSE),
     Txt(<<>>), Txt(<<"x", " ", "&", "=">>)}

ParamLists ==
    {ps \in UNION {[1..n -> [key : {KeyA, KeyB}, value : ParamValues]] : n \in 0..MaxParams} :
        \A i, j \in DOMAIN ps : i # j => ps[i].key # ps[j].key}

ApiStatuses == {200, 204, 298, 299, 300, 404, 500}

ApiResponses ==
    {NetworkFailure}
    \cup {Garbled(st) : st \in ApiStatuses}
    \cup {Response(st, b) : st \in ApiStatuses, b \in {JNull, ServerPlot}}

BuildUrlCall ==
    \E env \in Envs, path \in Paths, params \in ParamLists :
        /\ call.fn = "none"
        /\ call' = [fn |-> "buildUrl", env |-> env, path |-> path, params |-> params]
        /\ result' = buildUrl(env, path, params)
        /\ UNCHANGED <<viewVars, rng>>

HelperCall ==
    \E fn \in {"getJson", "postJson", "postFormData"}, res \in ApiResponses :
        /\ call.fn = "none"
        /\ call' = [fn |-> fn, res |-> res]
        /\ result' = CASE fn = "getJson" -> getJson("/f", res)
                       [] fn = "postJson" -> postJson("/f", res)
                       [] OTHER -> postFormData("/f", res)
        /\ UNCHANGED <<viewVars, rng>>

\* body arguments: none, null, {}, {a: 1}, {a: 'x', b: true}
Bodies ==
    {JUndefined, JNull, ObjectOf(<<>>),
     ObjectOf(<<[key |-> KeyA, value |-> JNum(1)]>>),
     ObjectOf(<<[key |-> KeyA, value |-> Txt(<<"x">>)],
                [key |-> KeyB, value |-> JBool(TRUE)]>>)}

\* init arguments: none, and objects with headers, method, body or cache
Inits ==
    {<<>>,
     [headers |-> [Authorization |-> "Bearer t"]],
     [headers |-> [k \in {"Content-Type"} |-> "text/plain"]],
     [method |-> "PUT"],
     [body |-> Txt(<<"raw">>)],
     [cache |-> "no-store"]}

\* the fetch(url, options) call a helper makes
FetchCall ==
    \E by \in {"getJson", "postJson", "postFormData"}, env \in Envs,
       params \in {<<>>, <<[key |-> KeyA, value |-> JNum(365)]>>},
       body \in Bodies, init \in Inits :
        /\ call.fn = "none"
        /\ call' = [fn |-> "fetch", by |-> by, env |-> env, params |-> params,
                    body |-> body, init |-> init]
        /\ result' = CASE by = "getJson" -> getJsonRequest(env, <<"/f">>, params, init)
                       [] by = "postJson" ->
                            postJsonRequest(env, <<"/f">>, params, body, init)
                       [] OTHER ->
                            postFormDataRequest(env, <<"/f">>, params, FormDataOf(1), init)
        /\ UNCHANGED <<viewVars, rng>>

ApiNext == BuildUrlCall \/ HelperCall \/ FetchCall

SpecApi == Init /\ [][ApiNext]_vars

\* the Biodiversity and OceanData views of a build with VITE_API_BASE unset or set
ConfiguredInit ==
    /\ ViewInit
    /\ rng = [cur |-> RngMod - 1, step |-> 0]
    /\ call = [fn |-> "none"]
    /\ result = [fn |-> "none"]
    /\ apiBase \in Envs

ConfiguredNext == OceanNext \/ BiodiversityNext

SpecConfigured == ConfiguredInit /\ [][ConfiguredNext]_vars

(***************************************************************************)
(* Properties of utils/api                                                 *)
(***************************************************************************)
\* the entries of a URL's query string
QueryOf(url) == ParseQuery(After(url, "?"))

\* the indices of the entries of params whose value is neither null nor undefined
Given(params) == {i \in DOMAIN params : params[i].value.t \notin {"undefined", "null"}}

\* entry i of params is in the query q exactly once, with its stringified value
OnceIn(q, params, i) ==
    /\ Cardinality({j \in DOMAIN q : q[j].key = params[i].key}) = 1
    /\ \E j \in DOMAIN q : q[j] = [key |-> params[i].key, value |-> StringOf(params[i].value)]

\* the entries of q whose key is none of keys
Others(q, keys) == SelectSeq(q, LAMBDA e : e.key \notin keys)

\* C7 as stated: for all (path, params), paths with a query string of their own
\* included, the URL buildUrl returns has in its query string exactly the entries of
\* params whose value is neither null nor undefined, each key once with its
\* stringified value, and no other entries.
C7_ExactlyParams ==
    (call.fn = "buildUrl" /\ ~result.threw) =>
        LET q == QueryOf(result.value)
        IN  /\ \A i \in Given(call.params) : OnceIn(q, call.params, i)
            /\ Len(q) = Cardinality(Given(call.params))

\* C7, amended: whenever buildUrl returns a URL, each entry of params whose value is
\* neither null nor undefined is in the query string exactly once with its
\* stringified value, and the other entries of the query string are exactly the
\* entries of the path's own query string under other keys, in their order.
C7_ParamsOverPathQuery ==
    (call.fn = "buildUrl" /\ ~result.threw) =>
        LET q == QueryOf(result.value)
            keys == {call.params[i].key : i \in Given(call.params)}
        IN  /\ \A i \in Given(call.params) : OnceIn(q, call.params, i)
            /\ Others(q, keys) = Others(QueryOf(call.path), keys)

\* a path whose own query string names a twice and b once, with a given anew and b null
C7_Witness ==
    /\ call.fn = "buildUrl"
    /\ ~result.threw
    /\ Len(QueryOf(call.path)) = 3
    /\ \E i \in Given(call.params) : call.params[i].key = KeyA
    /\ \E i \in DOMAIN call.params : call.params[i] = [key |-> KeyB, value |-> JNull]
    /\ Len(QueryOf(result.value)) = 2

Helpers == {"getJson", "postJson", "postFormData"}

\* C8 as stated: the helpers fail with a failure carrying the response status for
\* every response whose status is not in [200,299) and for every response whose body
\* is not parseable JSON; they return the parsed body otherwise.
C8_HalfOpenRange ==
    (call.fn \in Helpers /\ call.res.net = "ok") =>
        IF call.res.status \notin 200..298 \/ ~call.res.parseable
        THEN result.threw /\ result.error.status = call.res.status
        ELSE ~result.threw /\ result.value = call.res.json

\* C8, amended: the helpers fail with a failure carrying the response status for
\* every response whose status is outside the closed range [200,299]; for a
\* response with a status in [200,299] whose body is not parseable JSON they fail
\* with the parser's error, which carries no status; they return the parsed body
\* otherwise.
C8_ClosedRange ==
    (call.fn \in Helpers /\ call.res.net = "ok") =>
        IF call.res.status \notin 200..299
        THEN result.threw /\ result.error.status = call.res.status
        ELSE IF ~call.res.parseable
        THEN result.threw /\ result.error = [name |-> "SyntaxError", status |-> 0]
        ELSE ~result.threw /\ result.value = call.res.json

\* a response with status 299 and a JSON body, handed back by postFormData
C8_Witness ==
    /\ call.fn = "postFormData"
    /\ call.res = Response(299, ServerPlot)
    /\ ~result.threw
    /\ result.value = ServerPlot

\* C20: for every body and every init argument, an init with its own headers,
\* method or body included, the request postJson issues has the method POST, the
\* JSON encoding of the given body for its body (none for no body), and the header
\* Content-Type: application/json.
C20_PostJsonRequest ==
    (call.fn = "fetch" /\ call.by = "postJson") =>
        /\ result.options.method = "POST"
        /\ result.options.body =
             (IF call.body = JUndefined THEN JUndefined ELSE Txt(JsonText(call.body)))
        /\ "Content-Type" \in DOMAIN result.options.headers
        /\ result.options.headers["Content-Type"] = "application/json"

\* text is an absolute URL: it begins with http:// or https://
AbsoluteUrl(text) ==
    \/ BeginsWith(text, <<"h", "t", "t", "p", ":", "/", "/">>)
    \/ BeginsWith(text, <<"h", "t", "t", "p", "s", ":", "/", "/">>)

\* C21: buildUrl resolves path against the configured base address for every path
\* that is not an absolute URL, a relative path that merely begins with the
\* characters 'http' included, and uses path as given only when it is already an
\* absolute URL.
C21_ResolvedUnlessAbsolute ==
    call.fn = "buildUrl" =>
        /\ ~result.threw
        /\ Before(result.value, "?") =
             (IF AbsoluteUrl(call.path) THEN Before(call.path, "?")
              ELSE (IF call.env # <<>> THEN call.env
                    ELSE <<"h", "t", "t", "p", ":", "/", "/", "1", "2", "7", ".", "0",
                           ".", "0", ".", "1", ":", "8", "0", "0", "0">>)
                     \o Before(call.path, "?"))

(***************************************************************************)
(* utils/mock.ts called directly, for every seed of Math.random(): the     *)
(* generator called in `call`, the plot it returned in `result`.           *)
(***************************************************************************)
MockInit ==
    /\ ViewInit
    /\ rng \in RngStates
    /\ call = [fn |-> "none"]
    /\ result = [fn |-> "none"]
    /\ apiBase = <<>>

MockForecastCall ==
    /\ call' = [fn |-> "mockForecastInteractive", g |-> rng]
    /\ result' = mockForecastInteractive(rng)
    /\ rng' = Advance(rng, ForecastDraws)
    /\ UNCHANGED viewVars

MockSstCall ==
    /\ call' = [fn |-> "mockSST", g |-> rng]
    /\ result' = mockSST(rng)
    /\ rng' = Advance(rng, SstDraws)
    /\ UNCHANGED viewVars

MockDepthCall ==
    /\ call' = [fn |-> "mockDepth", g |-> rng]
    /\ result' = mockDepth(rng)
    /\ rng' = Advance(rng, DepthDraws)
    /\ UNCHANGED viewVars

MockNext == MockForecastCall \/ MockSstCall \/ MockDepthCall

SpecMock == MockInit /\ [][MockNext]_vars

(***************************************************************************)
(* Properties of utils/mock.ts                                             *)
(***************************************************************************)
\* the value plotted at x in a trace, x being a member of the trace's x axis
At(trace, x) == trace.y[CHOOSE i \in DOMAIN trace.x : trace.x[i] = x]

\* C9: mockForecastInteractive returns an actual series of exactly 21 points, one
\* for each year 2000..2020 in order, and a forecast series of exactly 31 points,
\* one for each year 2000..2030 in order; the forecast value for year y is
\* 55 + 0.6*t + 0.22*t^2 with t = y - 2000, which is 55 at 2000 and 271 at 2030;
\* each actual value is max(50, f(y) + jitter) for a jitter in [-1.0, 1.0].
\* Values are in 1/100.
C9_ForecastSeries ==
    call.fn = "mockForecastInteractive" =>
        LET actual == result.data[1]
            forecast == result.data[2]
        IN  /\ Len(actual.x) = 21 /\ Len(actual.y) = 21
            /\ \A i \in 1..21 : actual.x[i] = YearLabel(2000 + i - 1)
            /\ Len(forecast.x) = 31 /\ Len(forecast.y) = 31
            /\ \A i \in 1..31 : forecast.x[i] = YearLabel(2000 + i - 1)
            /\ \A i \in 1..31 :
                 LET t == i - 1
                 IN  forecast.y[i] = 5500 + 60 * t + 22 * t * t
            /\ forecast.y[1] = 5500
            /\ forecast.y[31] = 27100
            /\ \A i \in 1..21 :
                 \E jitter \in (0 - 100)..100 :
                    actual.y[i] = Max(5000, forecast.y[i] + jitter)

\* a call whose jitter is negative for one year and positive for another
C9_Witness ==
    /\ call.fn = "mockForecastInteractive"
    /\ \E i, j \in 1..21 : /\ result.data[1].y[i] < result.data[2].y[i]
                           /\ result.data[1].y[j] > result.data[2].y[j]

\* C10: for every outcome of the noise, mockDepth's chlorophyll value at depth 80
\* exceeds its chlorophyll value at depth 0 and at depth 900, every salinity value
\* lies in [33.0, 35.5] and every pH value lies in [5.5, 9.0].  Values are in 1/9000.
C10_DepthProfile ==
    call.fn = "mockDepth" =>
        LET chlorophyll == result.data[1]
            pH == result.data[2]
            salinity == result.data[3]
        IN  /\ {0, 80, 900} \subseteq {chlorophyll.x[i] : i \in DOMAIN chlorophyll.x}
            /\ At(chlorophyll, 80) > At(chlorophyll, 0)
            /\ At(chlorophyll, 80) > At(chlorophyll, 900)
            /\ \A i \in DOMAIN salinity.y :
                 salinity.y[i] >= 33 * 9000 /\ 2 * salinity.y[i] <= 71 * 9000
            /\ \A i \in DOMAIN pH.y :
                 2 * pH.y[i] >= 11 * 9000 /\ pH.y[i] <= 9 * 9000

\* a call whose noise differs from depth to depth and whose salinity reaches below
\* 34.0 in one of the anomalies
C10_Witness ==
    /\ call.fn = "mockDepth"
    /\ call.g.step # 0
    /\ \E i \in DOMAIN result.data[3].y : result.data[3].y[i] < 34 * 9000

\* C17: in mockSST the seasonal component peaks in August: within every calendar
\* year of the historical and of the forecast series that has an August, no month
\* of that year is warmer than its August.
C17_AugustPeak ==
    call.fn = "mockSST" =>
        \A s \in DOMAIN result.data :
            \A i, j \in DOMAIN result.data[s].x :
                (/\ result.data[s].x[i].month = <<0, 8>>
                 /\ result.data[s].x[j].year = result.data[s].x[i].year)
                    => result.data[s].y[j] <= result.data[s].y[i]

\* the label YYYY-MM of month m (1..12) of year y
Label(y, m) == [year |-> Digits(y), month |-> <<m \div 10, m % 10>>]

\* baseline + seasonal + trend of the calendar month m (1..12) at the trend index
\* idx, in 1/1000: 20 + 6 * sin(2*pi*(m - 1)/12 - pi/2) + 0.02 * idx
SstNoiseFree(m, idx) ==
    20000 + <<0 - 6000, 0 - 5196, 0 - 3000, 0, 3000, 5196, 6000, 5196, 3000, 0,
              0 - 3000, 0 - 5196>>[m] + 20 * idx

\* C25: mockSST's historical series has exactly 60 monthly labels 2020-01..2024-12
\* in ascending order without gaps or duplicates, and its forecast series exactly
\* 18 labels 2025-01..2026-06 continuing directly after it; the forecast uses the
\* same baseline, seasonal and trend formula with the trend month index continuing
\* from the history (the i-th forecast month uses index 59 + i), with noise bounded
\* by +/-0.3 in the history and by the strictly smaller +/-0.15 in the forecast.
\* Values are in 1/100, rounded to the nearest from 1/1000.
C25_SstLabelsAndFormula ==
    call.fn = "mockSST" =>
        LET hist == result.data[1]
            fc == result.data[2]
        IN  /\ Len(hist.x) = 60 /\ Len(hist.y) = 60
            /\ \A i \in 1..60 :
                 /\ hist.x[i] = Label(2020 + (i - 1) \div 12, ((i - 1) % 12) + 1)
                 /\ \E noise \in (0 - 300)..300 :
                      hist.y[i] =
                        (SstNoiseFree(((i - 1) % 12) + 1, i - 1) + noise + 5) \div 10
            /\ hist.x[1] = Label(2020, 1)
            /\ hist.x[60] = Label(2024, 12)
            /\ Len(fc.x) = 18 /\ Len(fc.y) = 18
            /\ \A i \in 1..18 :
                 /\ fc.x[i] = Label(2025 + (i - 1) \div 12, ((i - 1) % 12) + 1)
                 /\ \E noise \in (0 - 150)..150 :
                      fc.y[i] =
                        (SstNoiseFree(((i - 1) % 12) + 1, 59 + i) + noise + 5) \div 10
            /\ fc.x[1] = Label(2025, 1)
            /\ fc.x[18] = Label(2026, 6)

\* a call whose noise varies from month to month and exceeds the forecast's bound
\* somewhere in the history
C25_Witness ==
    /\ call.fn = "mockSST"
    /\ call.g.step # 0
    /\ \E i \in 1..60 :
          10 * result.data[1].y[i] < SstNoiseFree(((i - 1) % 12) + 1, i - 1) - 200
    /\ result.data[2].x[18] = Label(2026, 6)

\* C18: every series mockForecastInteractive, mockSST and mockDepth produce has as
\* many x values as y values, for every outcome of the noise.
C18_SameLength ==
    call.fn \in {"mockForecastInteractive", "mockSST", "mockDepth"} =>
        \A s \in DOMAIN result.data : Len(result.data[s].x) = Len(result.data[s].y)

\* a depth profile: three series of 91 points, drawn with noise that varies
C18_Witness ==
    /\ call.fn = "mockDepth"
    /\ call.g.step # 0
    /\ Len(result.data) = 3
    /\ \A s \in 1..3 : Len(result.data[s].x) = 91 /\ Len(result.data[s].y) = 91

====
